---- MODULE Spec2Model ----
(***************************************************************************)
(* Model of st_keyword_volumes_app.py: the provider adapters               *)
(* (fetch_ahrefs_volume_data, fetch_semrush_volume_data,                   *)
(* fetch_ahrefs_volume_history), calculate_monthly_percentage_change, and  *)
(* the two pipeline stages enhance_keywords and                            *)
(* enhance_csv_with_detailed_volume, driven by the button handler.         *)
(*                                                                         *)
(* Python values are modelled as "cells" (one record shape for int, float, *)
(* str, None and pandas NaN), Python dicts that are iterated in insertion  *)
(* order as association lists, JSON objects as TLA+ records.  Floats are   *)
(* exact rationals.  Dates are calendar months [year, mon].                *)
(***************************************************************************)
EXTENDS Integers, Sequences, FiniteSets, TLC

VARIABLES
    keywords,       \* the keyword list handed to both pipeline stages
    data_sources,   \* set of enabled sources
    start_date,     \* <<>> for None, <<month>> for a date
    end_date,       \* <<>> for None, <<month>> for a date
    pc,             \* position of the run
    idx,            \* index of the next keyword of the running loop
    combined_data,  \* enhance_keywords: keyword -> data_for_keyword
    rows_list,      \* enhance_csv_with_detailed_volume: rows built so far
    csv_content,    \* the exported table: header row, then one row per entry
    fault,          \* the exception that ended the run, "" if none
    response,       \* history adapter on its own: the provider's response
    history,        \* history adapter on its own: what the fetch returned
    pct_change      \* history adapter on its own: the percentage change

vars == <<keywords, data_sources, start_date, end_date, pc, idx, combined_data,
          rows_list, csv_content, fault, response, history, pct_change>>

-----------------------------------------------------------------------------
(* Bounds *)

MaxKeywords == 2
MaxMetrics == 3
NumMonths == 4

-----------------------------------------------------------------------------
(* Python values *)

Abs(n) == IF n < 0 THEN -n ELSE n

RECURSIVE GCD(_, _)
GCD(a, b) == IF b = 0 THEN a ELSE GCD(b, a % b)

Cell(kind, s, num, n, d, suffix) ==
    [kind |-> kind, s |-> s, num |-> num, n |-> n, d |-> d, suffix |-> suffix]

PyInt(n) == Cell("int", "", "int", n, 1, "")
\* the float n / d, in lowest terms with a positive denominator
PyFloat(n, d) ==
    LET g == GCD(Abs(n), Abs(d))
        sg == IF d < 0 THEN -1 ELSE 1
    IN  Cell("float", "", "float", sg * (n \div g), sg * (d \div g), "")
PyStr(s) == Cell("str", s, "", 0, 1, "")
None == Cell("None", "", "", 0, 1, "")
NaN == Cell("NaN", "", "", 0, 1, "")
NA == PyStr("N/A")

\* bool(c)
Truthy(c) ==
    CASE c.kind = "int" -> c.n # 0
      [] c.kind = "float" -> c.n # 0
      [] c.kind = "str" -> ~(c.s = "" /\ c.num = "" /\ c.suffix = "")
      [] OTHER -> FALSE

\* f"API request failed: {status}"
FailedStr(status) == Cell("str", "API request failed: ", "int", status, 1, "")

\* f"{c}%"
PercentStr(c) == Cell("str", c.s, c.num, c.n, c.d, "%")

\* the built-in round() of the quotient total / count (count > 0, total >= 0):
\* to the nearest integer, a tie to the even one
Round(total, count) ==
    LET q == total \div count
        r == total % count
    IN  IF 2 * r < count THEN q
        ELSE IF 2 * r > count THEN q + 1
        ELSE IF q % 2 = 0 THEN q ELSE q + 1

\* isinstance(v, int)
IsInt(c) == c.kind = "int"

-----------------------------------------------------------------------------
(* Dicts kept in insertion order: sequences of [k, v] *)

Keys(d) == [i \in 1..Len(d) |-> d[i].k]
Values(d) == [i \in 1..Len(d) |-> d[i].v]
KeySet(d) == {d[i].k : i \in 1..Len(d)}
Has(d, k) == \E i \in 1..Len(d) : d[i].k = k
Get(d, k) == d[CHOOSE i \in 1..Len(d) : d[i].k = k].v
GetOr(d, k, default) == IF Has(d, k) THEN Get(d, k) ELSE default
\* d[k] = v
Put(d, k, v) ==
    IF Has(d, k)
    THEN [i \in 1..Len(d) |-> IF d[i].k = k THEN [k |-> k, v |-> v] ELSE d[i]]
    ELSE Append(d, [k |-> k, v |-> v])

RECURSIVE Update(_, _)
\* d.update(e)
Update(d, e) == IF e = <<>> THEN d ELSE Update(Put(d, Head(e).k, Head(e).v), Tail(e))

\* obj.get(k, default) on a JSON object or a dict with string keys
Field(obj, k, default) == IF k \in DOMAIN obj THEN obj[k] ELSE default

-----------------------------------------------------------------------------
(* Calendar months and column names *)

Month(y, m) == [year |-> y, mon |-> m]
Ord(d) == d.year * 12 + d.mon - 1
MonthOfOrd(k) == Month(k \div 12, (k % 12) + 1)

\* %b
Abbr == <<"Jan", "Feb", "Mar", "Apr", "May", "Jun",
          "Jul", "Aug", "Sep", "Oct", "Nov", "Dec">>
\* the abbreviations as string comparison orders them
Alphabetical == <<"Apr", "Aug", "Dec", "Feb", "Jan", "Jul",
                  "Jun", "Mar", "May", "Nov", "Oct", "Sep">>
AlphaRank(a) == CHOOSE i \in 1..12 : Alphabetical[i] = a
MonthNumber(a) == CHOOSE i \in 1..12 : Abbr[i] = a

\* a column name: a plain name, or a name followed by a '%b %Y' label
Col(name) == [name |-> name, abbr |-> "", year |-> 0]
\* f"Ahrefs Search Volume: {metric_date.strftime('%b %Y')}"
MonthCol(d) == [name |-> "Ahrefs Search Volume: ", abbr |-> Abbr[d.mon], year |-> d.year]
\* the calendar month a month column is labelled with
MonthOfCol(c) == Month(c.year, MonthNumber(c.abbr))

\* k1 < k2 as strings, for two month columns (same prefix, then the
\* three-letter abbreviation, then the four-digit year)
KeyLess(k1, k2) ==
    \/ AlphaRank(k1.abbr) < AlphaRank(k2.abbr)
    \/ k1.abbr = k2.abbr /\ k1.year < k2.year

\* sorted(S) for a set of distinct month columns
Sorted(S) ==
    [i \in 1..Cardinality(S) |->
        CHOOSE k \in S : Cardinality({x \in S : KeyLess(x, k)}) = i - 1]

-----------------------------------------------------------------------------
(* fetch_ahrefs_volume_history *)

Returned(value) == [exc |-> "", ret |-> value]
Raised(exc) == [exc |-> exc, ret |-> <<>>]

RECURSIVE HistoryLoop(_, _, _, _, _)
\* the loop over data['metrics']: the filtered_data and volumes it leaves,
\* or the exception that ends it
HistoryLoop(metrics, start, end, filtered_data, volumes) ==
    IF metrics = <<>> THEN [exc |-> "", filtered_data |-> filtered_data, volumes |-> volumes]
    ELSE LET metric == Head(metrics) IN
         IF "date" \notin DOMAIN metric
         THEN [exc |-> "KeyError: 'date'", filtered_data |-> filtered_data, volumes |-> volumes]
         ELSE IF start = <<>> \/ end = <<>>
                 \/ (Ord(start[1]) <= Ord(metric.date) /\ Ord(metric.date) <= Ord(end[1]))
         THEN IF "volume" \notin DOMAIN metric
              THEN [exc |-> "KeyError: 'volume'", filtered_data |-> filtered_data,
                    volumes |-> volumes]
              ELSE HistoryLoop(Tail(metrics), start, end,
                               Put(filtered_data, MonthCol(metric.date), metric.volume),
                               Append(volumes, metric.volume))
         ELSE HistoryLoop(Tail(metrics), start, end, filtered_data, volumes)

RECURSIVE SumInts(_)
SumInts(cells) == IF cells = <<>> THEN 0 ELSE Head(cells).n + SumInts(Tail(cells))

fetch_ahrefs_volume_history(resp, start, end) ==
    IF resp.status_code = 200
    THEN IF "metrics" \in DOMAIN resp.json /\ resp.json.metrics # <<>>
         THEN LET loop == HistoryLoop(resp.json.metrics, start, end, <<>>, <<>>) IN
              IF loop.exc # "" THEN Raised(loop.exc)
              ELSE IF \E i \in 1..Len(loop.volumes) : ~IsInt(loop.volumes[i])
              THEN Raised("TypeError")
              ELSE Returned([average_volume |->
                                 IF loop.volumes # <<>>
                                 THEN PyFloat(SumInts(loop.volumes), Len(loop.volumes))
                                 ELSE NA,
                             monthly_volumes |-> loop.filtered_data])
         ELSE Returned([average_volume |-> NA, monthly_volumes |-> <<>>])
    ELSE Returned([volume |-> FailedStr(resp.status_code), monthly_volumes |-> <<>>])

-----------------------------------------------------------------------------
(* calculate_monthly_percentage_change *)

\* the positions i of months for which a change is computed
ChangeIndexes(volumes, months) ==
    {i \in 2..Len(months) :
        /\ Truthy(Get(volumes, months[i - 1]))
        /\ Truthy(Get(volumes, months[i]))
        /\ Get(volumes, months[i - 1]).n # 0}

\* (later - earlier) / earlier * 100
Change(earlier, later) == PyFloat((later.n - earlier.n) * 100, earlier.n)

RECURSIVE SumFloats(_)
SumFloats(cells) ==
    IF cells = <<>> THEN PyFloat(0, 1)
    ELSE LET rest == SumFloats(Tail(cells)) IN
         PyFloat(Head(cells).n * rest.d + rest.n * Head(cells).d, Head(cells).d * rest.d)

\* sum(changes) / len(changes) if changes else 'N/A'
Average(changes) ==
    IF changes = <<>> THEN NA
    ELSE LET total == SumFloats(changes) IN PyFloat(total.n, total.d * Len(changes))

RECURSIVE ChangesFrom(_, _, _)
\* the list changes, in the order the loop appends to it
ChangesFrom(volumes, months, i) ==
    IF i > Len(months) THEN <<>>
    ELSE (IF i \in ChangeIndexes(volumes, months)
          THEN <<Change(Get(volumes, months[i - 1]), Get(volumes, months[i]))>>
          ELSE <<>>) \o ChangesFrom(volumes, months, i + 1)

calculate_monthly_percentage_change(volumes) ==
    Average(ChangesFrom(volumes, Sorted(KeySet(volumes)), 2))

-----------------------------------------------------------------------------
(* fetch_ahrefs_volume_data, fetch_semrush_volume_data *)

fetch_ahrefs_volume_data(resp) ==
    IF resp.status_code = 200
    THEN IF "keywords" \in DOMAIN resp.json /\ resp.json.keywords # <<>>
         THEN LET keyword_data == resp.json.keywords[1] IN
              [volume |-> Field(keyword_data, "volume", NA),
               cpc |-> Field(keyword_data, "cpc", NA),
               global_volume |-> Field(keyword_data, "global_volume", NA),
               cps |-> Field(keyword_data, "cps", NA),
               difficulty |-> Field(keyword_data, "difficulty", NA)]
         ELSE [volume |-> PyStr("Not found")]
    ELSE [volume |-> FailedStr(resp.status_code)]

\* dict(zip(headers, fields)): the pairs up to the shorter length, a later
\* pair replacing an earlier one with the same header; the values are text
ZipDict(headers, fields) ==
    LET n == IF Len(headers) < Len(fields) THEN Len(headers) ELSE Len(fields) IN
    [h \in {headers[i] : i \in 1..n} |->
        PyStr(fields[CHOOSE i \in 1..n :
                        headers[i] = h /\ \A j \in (i + 1)..n : headers[j] # h])]

\* resp.lines is response.text.strip().split('\n'), each line split at ';'
fetch_semrush_volume_data(resp) ==
    IF resp.status_code = 200
    THEN LET lines == resp.lines
             headers == lines[1]
         IN  [metrics |-> [i \in 1..(Len(lines) - 1) |-> ZipDict(headers, lines[i + 1])]]
    ELSE [volume |-> FailedStr(resp.status_code)]

-----------------------------------------------------------------------------
(* enhance_keywords: the body of its loop *)

\* the call made whenever the source is enabled, the dates not looked at
CallsHistoryIgnoringDates(sources, start, end) == "Ahrefs History" \in sources

\* the condition under which the history adapter is called
CallsHistory(sources, start, end) ==
    "Ahrefs History" \in sources /\ start # <<>> /\ end # <<>>

Entry(present, key, value) == IF present THEN key :> value ELSE <<>>

\* data_for_keyword for one keyword, given the providers' responses; the
\* exception of the history adapter, if it raises, ends the call
data_for_keyword(sources, start, end, ra, rs, rh) ==
    LET hist == fetch_ahrefs_volume_history(rh, start, end) IN
    IF CallsHistory(sources, start, end) /\ hist.exc # ""
    THEN Raised(hist.exc)
    ELSE Returned(Entry("Ahrefs" \in sources, "ahrefs", fetch_ahrefs_volume_data(ra))
                  @@ Entry("SEMrush" \in sources, "semrush", fetch_semrush_volume_data(rs))
                  @@ Entry(CallsHistory(sources, start, end), "ahrefs_history", hist.ret))

-----------------------------------------------------------------------------
(* enhance_csv_with_detailed_volume *)

SemrushColumns(semrush_data) ==
    <<[k |-> Col("SEMrush Search Volume"), v |-> Field(semrush_data, "Search Volume", NA)],
      [k |-> Col("SEMrush CPC"), v |-> Field(semrush_data, "CPC", NA)],
      [k |-> Col("SEMrush Competition"), v |-> Field(semrush_data, "Competition", NA)],
      [k |-> Col("SEMrush Number of Results"),
       v |-> Field(semrush_data, "Number of Results", NA)]>>

AhrefsColumns(ahrefs_data) ==
    <<[k |-> Col("Ahrefs Volume"), v |-> Field(ahrefs_data, "volume", NA)],
      [k |-> Col("Ahrefs CPC"), v |-> Field(ahrefs_data, "cpc", NA)],
      [k |-> Col("Ahrefs Global Volume"), v |-> Field(ahrefs_data, "global_volume", NA)],
      [k |-> Col("Ahrefs CPS"), v |-> Field(ahrefs_data, "cps", NA)],
      [k |-> Col("Ahrefs Difficulty"), v |-> Field(ahrefs_data, "difficulty", NA)]>>

AverageColumn == Col("Average Monthly Search in Date Range")
ChangeColumn == Col("Average Monthly % Change")

\* [v for v in monthly_volumes.values() if isinstance(v, int)]
IntValues(monthly_volumes) == SelectSeq(Values(monthly_volumes), IsInt)

\* round(sum(volumes) / len(volumes)) if volumes else 0
average_monthly_search(monthly_volumes) ==
    LET volumes == IntValues(monthly_volumes) IN
    IF volumes # <<>> THEN PyInt(Round(SumInts(volumes), Len(volumes))) ELSE PyInt(0)

WithSemrush(keyword_data, data, sources) ==
    IF "SEMrush" \in sources /\ "semrush" \in DOMAIN data
    THEN LET semrush_metrics == Field(data.semrush, "metrics", <<>>) IN
         IF semrush_metrics # <<>>
         THEN Update(keyword_data, SemrushColumns(semrush_metrics[1]))
         ELSE keyword_data
    ELSE keyword_data

WithAhrefs(keyword_data, data, sources) ==
    IF "Ahrefs" \in sources /\ "ahrefs" \in DOMAIN data
    THEN Update(keyword_data, AhrefsColumns(data.ahrefs))
    ELSE keyword_data

WithHistory(keyword_data, data, sources) ==
    IF "Ahrefs History" \in sources /\ "ahrefs_history" \in DOMAIN data
    THEN LET monthly_volumes == Field(data.ahrefs_history, "monthly_volumes", <<>>) IN
         Put(Put(Update(keyword_data, monthly_volumes),
                 AverageColumn, average_monthly_search(monthly_volumes)),
             ChangeColumn,
             PercentStr(calculate_monthly_percentage_change(monthly_volumes)))
    ELSE keyword_data

\* keyword_data for one keyword: the body of the loop
keyword_row(keyword, data, sources) ==
    WithHistory(
        WithAhrefs(
            WithSemrush(<<[k |-> Col("Keyword"), v |-> PyStr(keyword)]>>, data, sources),
            data, sources),
        data, sources)

RECURSIVE Columns(_)
\* the columns of pd.DataFrame(rows): the keys of the rows, each where it
\* is first seen
Columns(rows) ==
    IF rows = <<>> THEN <<>>
    ELSE LET before == Columns(SubSeq(rows, 1, Len(rows) - 1))
             IsNew(c) == \A i \in 1..Len(before) : before[i] # c
         IN  before \o SelectSeq(Keys(rows[Len(rows)]), IsNew)

\* pd.DataFrame(rows_list): a cell per row and column, NaN where the row
\* has no such key
DataFrame(rows) ==
    LET cols == Columns(rows) IN
    [columns |-> cols,
     data |-> [i \in 1..Len(rows) |->
                  [j \in 1..Len(cols) |-> GetOr(rows[i], cols[j], NaN)]]]

\* fillna without inplace=True: the frame is left as it was
fillna_not_inplace(df) == df

\* final_df.fillna('N/A')
fillna(df) ==
    [df EXCEPT !.data =
        [i \in 1..Len(df.data) |->
            [j \in 1..Len(df.columns) |->
                IF df.data[i][j].kind \in {"NaN", "None"} THEN NA ELSE df.data[i][j]]]]

\* final_df[['Keyword'] + [col for col in final_df.columns if col != 'Keyword']]
KeywordFirst(df) ==
    LET NotKeyword(c) == c # Col("Keyword")
        position(c) == CHOOSE j \in 1..Len(df.columns) : df.columns[j] = c
        cols == <<Col("Keyword")>> \o SelectSeq(df.columns, NotKeyword)
    IN  [columns |-> cols,
         data |-> [i \in 1..Len(df.data) |->
                      [j \in 1..Len(cols) |-> df.data[i][position(cols[j])]]]]

\* str(c) as to_csv writes a cell: a number becomes its text, a missing
\* value the empty string
CsvText(c) ==
    IF c.kind \in {"NaN", "None"} THEN PyStr("") ELSE [c EXCEPT !.kind = "str"]

\* to_csv with the index written: an unnamed first column of row numbers
to_csv_with_index(df) ==
    [header |-> <<Col("")>> \o df.columns,
     lines |-> [i \in 1..Len(df.data) |->
                   <<CsvText(PyInt(i - 1))>>
                   \o [j \in 1..Len(df.columns) |-> CsvText(df.data[i][j])]]]

\* final_df.to_csv(index=False): the header line, then a line per row
to_csv(df) ==
    [header |-> df.columns,
     lines |-> [i \in 1..Len(df.data) |->
                   [j \in 1..Len(df.columns) |-> CsvText(df.data[i][j])]]]

-----------------------------------------------------------------------------
(* Inputs *)

Keywords == {"boat", "car"}
KeywordLists == UNION {[1..n -> Keywords] : n \in 0..MaxKeywords}
Sources == {"SEMrush", "Ahrefs", "Ahrefs History"}

NoJson == <<>>
NoResponse == [status_code |-> 0]

AhrefsResponses ==
    {[status_code |-> 500, json |-> NoJson],
     [status_code |-> 200, json |-> NoJson],
     [status_code |-> 200, json |-> [keywords |-> <<>>]],
     [status_code |-> 200,
      json |-> [keywords |-> <<[volume |-> PyInt(100), cpc |-> PyInt(5),
                                global_volume |-> PyInt(1000),
                                difficulty |-> PyInt(7)]>>]]}

SemrushHeader == <<"Keyword", "Search Volume", "CPC", "Competition", "Number of Results">>

SemrushResponses ==
    {[status_code |-> 500, lines |-> <<>>],
     [status_code |-> 200, lines |-> <<SemrushHeader>>],
     [status_code |-> 200, lines |-> <<SemrushHeader, <<"kw", "1000", "2", "1", "9000">>>>]}

Observation(d, v) == [date |-> d, volume |-> v]

\* the history responses the pipeline is run against
HistoryResponses ==
    {[status_code |-> 500, json |-> NoJson],
     [status_code |-> 200, json |-> NoJson],
     [status_code |-> 200, json |-> [metrics |-> <<>>]],
     [status_code |-> 200,
      json |-> [metrics |-> <<Observation(Month(2024, 1), PyInt(100)),
                              Observation(Month(2024, 2), PyInt(0)),
                              Observation(Month(2024, 3), PyInt(50))>>]],
     [status_code |-> 200,
      json |-> [metrics |-> <<Observation(Month(2024, 1), PyInt(10)),
                              Observation(Month(2024, 3), PyInt(15))>>]],
     [status_code |-> 200,
      json |-> [metrics |-> <<Observation(Month(2024, 2), PyInt(100))>>]],
     [status_code |-> 200, json |-> [metrics |-> <<[volume |-> PyInt(100)]>>]],
     [status_code |-> 200, json |-> [metrics |-> <<[date |-> Month(2024, 2)]>>]],
     [status_code |-> 200,
      json |-> [metrics |-> <<Observation(Month(2024, 2), None)>>]]}

StartDates == {<<>>, <<Month(2024, 1)>>}
EndDates == {<<>>, <<Month(2024, 3)>>}

\* the history adapter on its own: every payload of at most MaxMetrics
\* observations over a window of NumMonths months
Window == {MonthOfOrd(k) : k \in Ord(Month(2023, 12))..(Ord(Month(2023, 12)) + NumMonths - 1)}
Volumes == {PyInt(0), PyInt(50), PyInt(100), None}
Metrics ==
    {Observation(d, v) : d \in Window, v \in Volumes}
    \cup {[volume |-> PyInt(100)], [date |-> Month(2024, 1)]}
Payloads ==
    {[status_code |-> 500, json |-> NoJson], [status_code |-> 200, json |-> NoJson]}
    \cup {[status_code |-> 200, json |-> [metrics |-> m]] :
            m \in UNION {[1..n -> Metrics] : n \in 0..MaxMetrics}}
Dates == {<<>>} \cup {<<d>> : d \in Window}

NoCsv == [header |-> <<>>, lines |-> <<>>]

-----------------------------------------------------------------------------
(* The run of the pipeline: the button handler *)

Init ==
    /\ keywords \in KeywordLists
    /\ data_sources \in SUBSET Sources
    /\ start_date \in StartDates
    /\ end_date \in EndDates
    /\ pc = "button"
    /\ idx = 1
    /\ combined_data = <<>>
    /\ rows_list = <<>>
    /\ csv_content = NoCsv
    /\ fault = ""
    /\ response = NoResponse
    /\ history = <<>>
    /\ pct_change = NA

\* if st.button('Enhance Keywords'): the check of the keyword list
Click ==
    /\ pc = "button"
    /\ pc' = IF keywords = <<>> \/ keywords = <<"">> THEN "error" ELSE "enhance_keywords"
    /\ UNCHANGED <<keywords, data_sources, start_date, end_date, idx, combined_data,
                   rows_list, csv_content, fault, response, history, pct_change>>

\* one pass of the loop of enhance_keywords
EnhanceKeyword ==
    /\ pc = "enhance_keywords"
    /\ idx <= Len(keywords)
    /\ \E ra \in IF "Ahrefs" \in data_sources THEN AhrefsResponses ELSE {NoResponse},
          rs \in IF "SEMrush" \in data_sources THEN SemrushResponses ELSE {NoResponse},
          rh \in IF CallsHistory(data_sources, start_date, end_date)
                 THEN HistoryResponses ELSE {NoResponse} :
        LET r == data_for_keyword(data_sources, start_date, end_date, ra, rs, rh) IN
        IF r.exc # ""
        THEN /\ pc' = "aborted"
             /\ fault' = r.exc
             /\ UNCHANGED <<idx, combined_data>>
        ELSE /\ combined_data' = (keywords[idx] :> r.ret) @@ combined_data
             /\ idx' = idx + 1
             /\ UNCHANGED <<pc, fault>>
    /\ UNCHANGED <<keywords, data_sources, start_date, end_date, rows_list,
                   csv_content, response, history, pct_change>>

\* return combined_data, and the handler's `if result:`
EnhanceReturn ==
    /\ pc = "enhance_keywords"
    /\ idx > Len(keywords)
    /\ pc' = IF DOMAIN combined_data # {} THEN "enhance_csv" ELSE "error"
    /\ idx' = 1
    /\ UNCHANGED <<keywords, data_sources, start_date, end_date, combined_data,
                   rows_list, csv_content, fault, response, history, pct_change>>

\* one pass of the loop of enhance_csv_with_detailed_volume
BuildRow ==
    /\ pc = "enhance_csv"
    /\ idx <= Len(keywords)
    /\ rows_list' = Append(rows_list,
                           keyword_row(keywords[idx], combined_data[keywords[idx]],
                                       data_sources))
    /\ idx' = idx + 1
    /\ UNCHANGED <<keywords, data_sources, start_date, end_date, pc, combined_data,
                   csv_content, fault, response, history, pct_change>>

\* the table and its CSV text
Export ==
    /\ pc = "enhance_csv"
    /\ idx > Len(keywords)
    /\ csv_content' = to_csv(KeywordFirst(fillna(DataFrame(rows_list))))
    /\ pc' = "done"
    /\ UNCHANGED <<keywords, data_sources, start_date, end_date, idx, combined_data,
                   rows_list, fault, response, history, pct_change>>

Next == Click \/ EnhanceKeyword \/ EnhanceReturn \/ BuildRow \/ Export

Spec == Init /\ [][Next]_vars

-----------------------------------------------------------------------------
(* The history adapter and the percentage change on their own *)

InitHistory ==
    /\ response \in Payloads
    /\ start_date \in Dates
    /\ end_date \in Dates
    /\ pc = "history"
    /\ keywords = <<>>
    /\ data_sources = {}
    /\ idx = 1
    /\ combined_data = <<>>
    /\ rows_list = <<>>
    /\ csv_content = NoCsv
    /\ fault = ""
    /\ history = <<>>
    /\ pct_change = NA

FetchHistory ==
    /\ pc = "history"
    /\ LET r == fetch_ahrefs_volume_history(response, start_date, end_date) IN
       /\ history' = r.ret
       /\ fault' = r.exc
       /\ pc' = IF r.exc # "" THEN "history_raised" ELSE "history_fetched"
    /\ UNCHANGED <<keywords, data_sources, start_date, end_date, idx, combined_data,
                   rows_list, csv_content, response, pct_change>>

CalculateChange ==
    /\ pc = "history_fetched"
    /\ pct_change' =
           calculate_monthly_percentage_change(Field(history, "monthly_volumes", <<>>))
    /\ pc' = "history_done"
    /\ UNCHANGED <<keywords, data_sources, start_date, end_date, idx, combined_data,
                   rows_list, csv_content, fault, response, history>>

NextHistory == FetchHistory \/ CalculateChange

SpecHistory == InitHistory /\ [][NextHistory]_vars

-----------------------------------------------------------------------------
(* Properties of the exported table *)

Done == pc = "done"
Rows == 1..Len(keywords)
HasColumn(c) == \E j \in 1..Len(csv_content.header) : csv_content.header[j] = c
\* the cell of line i under column c
CsvCell(i, c) ==
    csv_content.lines[i][CHOOSE j \in 1..Len(csv_content.header) : csv_content.header[j] = c]
DataOf(i) == combined_data[keywords[i]]
Called(i, source) == source \in DOMAIN DataOf(i)
\* the adapter returned its transport-failure record
TransportFailed(i, source) ==
    /\ Called(i, source)
    /\ "volume" \in DOMAIN DataOf(i)[source]
    /\ DataOf(i)[source].volume.s = "API request failed: "
SeriesOf(i) == Field(DataOf(i).ahrefs_history, "monthly_volumes", <<>>)

AhrefsColumnNames ==
    {Col("Ahrefs Volume"), Col("Ahrefs CPC"), Col("Ahrefs Global Volume"),
     Col("Ahrefs CPS"), Col("Ahrefs Difficulty")}
SemrushColumnNames ==
    {Col("SEMrush Search Volume"), Col("SEMrush CPC"), Col("SEMrush Competition"),
     Col("SEMrush Number of Results")}
AhrefsSucceeded(i) ==
    /\ Called(i, "ahrefs")
    /\ DOMAIN DataOf(i).ahrefs = {"volume", "cpc", "global_volume", "cps", "difficulty"}

\* C1: when the Ahrefs call of one keyword fails and that of another
\* succeeds, the finished table has, in the row of the failed keyword, N/A in
\* every Ahrefs column (and likewise N/A in every column of any other failed
\* provider), and the row of the successful keyword carries the values the
\* provider returned.
C1_FailedProviderFieldsAreNA ==
    Done =>
        \A i \in Rows, j \in Rows :
            (TransportFailed(i, "ahrefs") /\ AhrefsSucceeded(j)) =>
                /\ \A c \in AhrefsColumnNames : CsvCell(i, c) = NA
                /\ TransportFailed(i, "semrush") =>
                       \A c \in SemrushColumnNames : HasColumn(c) => CsvCell(i, c) = NA
                /\ TransportFailed(i, "ahrefs_history") =>
                       /\ CsvCell(i, AverageColumn) = NA
                       /\ CsvCell(i, ChangeColumn) = NA
                /\ CsvCell(j, Col("Ahrefs Volume")) = CsvText(DataOf(j).ahrefs.volume)
                /\ CsvCell(j, Col("Ahrefs CPC")) = CsvText(DataOf(j).ahrefs.cpc)

\* C2: the finished table has one line per entry of the keyword list, line i
\* holding keywords[i] under "Keyword", and "Keyword" is the first column.
C2_OneRowPerEntryInOrder ==
    Done =>
        /\ Len(csv_content.lines) = Len(keywords)
        /\ csv_content.header # <<>>
        /\ csv_content.header[1] = Col("Keyword")
        /\ \A i \in Rows : csv_content.lines[i][1] = PyStr(keywords[i])

\* C2 witness: a finished table for a list that repeats a keyword
C2_Witness ==
    /\ Done
    /\ Len(keywords) >= 2
    /\ keywords[1] = keywords[2]
    /\ Len(csv_content.lines) = Len(keywords)

\* C3: the columns of the finished table are exactly the keys of the rows
\* built, each once; every line has a cell per column; and a line whose row
\* has no such key holds N/A there.
C3_ColumnsAreUnionAndFilled ==
    Done =>
        LET header == csv_content.header IN
        /\ {header[j] : j \in 1..Len(header)}
             = UNION {KeySet(rows_list[i]) : i \in 1..Len(rows_list)}
        /\ \A j, k \in 1..Len(header) : header[j] = header[k] => j = k
        /\ \A i \in Rows :
              /\ Len(csv_content.lines[i]) = Len(header)
              /\ \A j \in 1..Len(header) :
                    ~Has(rows_list[i], header[j]) => csv_content.lines[i][j] = NA

\* C3 witness: a finished table with a column that one row produced and
\* another did not
C3_Witness ==
    /\ Done
    /\ \E i \in Rows, j \in 1..Len(csv_content.header) :
          /\ ~Has(rows_list[i], csv_content.header[j])
          /\ csv_content.lines[i][j] = NA

\* the mean of the int and float values of a series, as total and count
NumericValues(series) ==
    LET IsNumber(c) == c.kind \in {"int", "float"} IN SelectSeq(Values(series), IsNumber)

\* C5: in the finished table the 'Average Monthly Search in Date Range' cell
\* of a keyword is the arithmetic mean of the numeric values of its monthly
\* series, and N/A when the series has none.
C5_AverageIsMeanOrNA ==
    Done =>
        \A i \in Rows :
            Called(i, "ahrefs_history") =>
                LET numbers == NumericValues(SeriesOf(i))
                    cell == CsvCell(i, AverageColumn)
                IN  IF numbers = <<>> THEN cell = NA
                    ELSE /\ cell.num # ""
                         /\ cell.n * SumFloats(numbers).d * Len(numbers)
                              = SumFloats(numbers).n * cell.d

\* C8: a success response whose payload lacks expected parts raises no fault,
\* and in the finished table the Ahrefs fields of a keyword whose payload had
\* no keyword object are N/A.
C8_SchemaFailureDegrades ==
    /\ fault = ""
    /\ Done =>
          \A i \in Rows :
              (Called(i, "ahrefs") /\ DataOf(i).ahrefs = [volume |-> PyStr("Not found")]) =>
                  \A c \in AhrefsColumnNames : CsvCell(i, c) = NA

\* C9: in the finished table the 'Average Monthly % Change' cell of a keyword
\* whose series has no pair to compute a change from is exactly N/A.
C9_NoChangeIsNA ==
    Done =>
        \A i \in Rows :
            (Called(i, "ahrefs_history")
             /\ calculate_monthly_percentage_change(SeriesOf(i)) = NA) =>
                CsvCell(i, ChangeColumn) = NA

\* C10: the history adapter's result is stored for a keyword exactly when
\* 'Ahrefs History' is enabled and both dates are given; every row built has
\* the two derived columns exactly in that case, and has no month column when
\* a date is absent; the same holds of the header of the finished table.
C10_HistoryColumnsIffCalled ==
    LET requested ==
            "Ahrefs History" \in data_sources /\ start_date # <<>> /\ end_date # <<>>
        Derived(ks) ==
            /\ AverageColumn \in ks <=> requested
            /\ ChangeColumn \in ks <=> requested
            /\ ~requested => \A c \in ks : c.abbr = ""
    IN  /\ \A kw \in DOMAIN combined_data :
              "ahrefs_history" \in DOMAIN combined_data[kw] <=> requested
        /\ \A i \in 1..Len(rows_list) : Derived(KeySet(rows_list[i]))
        /\ Done => Derived({csv_content.header[j] : j \in 1..Len(csv_content.header)})

\* C10 witness: a finished table whose history call failed for a keyword and
\* whose row still has both derived columns
C10_Witness ==
    /\ Done
    /\ \E i \in Rows :
          /\ TransportFailed(i, "ahrefs_history")
          /\ Has(rows_list[i], AverageColumn)
          /\ Has(rows_list[i], ChangeColumn)
          /\ HasColumn(AverageColumn)

-----------------------------------------------------------------------------
(* Properties of the history adapter and the percentage change *)

Series == Field(history, "monthly_volumes", <<>>)

\* C4: for a requested range [start, end] the series the adapter returns for a
\* payload of dated observations has one key per calendar month of the range, in
\* chronological order, and no other.
C4_SeriesCoversRange ==
    (/\ pc = "history_fetched"
     /\ response.status_code = 200
     /\ "metrics" \in DOMAIN response.json
     /\ response.json.metrics # <<>>
     /\ \A i \in 1..Len(response.json.metrics) :
           /\ DOMAIN response.json.metrics[i] = {"date", "volume"}
           /\ IsInt(response.json.metrics[i].volume)
     /\ start_date # <<>>
     /\ end_date # <<>>
     /\ Ord(start_date[1]) <= Ord(end_date[1])) =>
        Keys(Series) =
            [k \in 1..(Ord(end_date[1]) - Ord(start_date[1]) + 1) |->
                MonthCol(MonthOfOrd(Ord(start_date[1]) + k - 1))]

\* the pairs of neighbours, in the order the function puts the months in,
\* where both values are present and the earlier one is not zero
ValidPairs(volumes, months) ==
    {i \in 2..Len(months) :
        /\ Get(volumes, months[i - 1]).kind \in {"int", "float"}
        /\ Get(volumes, months[i]).kind \in {"int", "float"}
        /\ Get(volumes, months[i - 1]).n # 0}

RECURSIVE ValidChanges(_, _, _)
ValidChanges(volumes, months, i) ==
    IF i > Len(months) THEN <<>>
    ELSE (IF i \in ValidPairs(volumes, months)
          THEN <<Change(Get(volumes, months[i - 1]), Get(volumes, months[i]))>>
          ELSE <<>>) \o ValidChanges(volumes, months, i + 1)

\* C6: the percentage change is the average of (later - earlier) / earlier *
\* 100 over exactly the neighbouring pairs where both values are present and
\* the earlier is not zero (a later value of zero included), N/A when there is
\* no such pair.
C6_ChangeOverValidPairs ==
    pc = "history_done" =>
        pct_change = Average(ValidChanges(Series, Sorted(KeySet(Series)), 2))

\* C7: every pair a change is computed for is a month of the series and the
\* chronologically next month of the series.
C7_PairsAreChronological ==
    pc = "history_done" =>
        LET months == Sorted(KeySet(Series))
            When(c) == Ord(MonthOfCol(c))
        IN  \A i \in ChangeIndexes(Series, months) :
                /\ When(months[i - 1]) < When(months[i])
                /\ \A c \in KeySet(Series) :
                      ~(When(months[i - 1]) < When(c) /\ When(c) < When(months[i]))

====
